---------------------------- MODULE Spec2Model ----------------------------
(***************************************************************************)
(* The stash layer of word-pouch: BaseStash / EntryStash /                 *)
(* CommonEntryStash (src/src/stash/common.ts) and the SentencesModule      *)
(* built on them (src/unnamed/part_001), over a Dexie database.            *)
(*                                                                         *)
(* A single id stands for the one-element list wrapInArray makes of it.    *)
(* JavaScript's `undefined` is the record `undefined` below.               *)
(***************************************************************************)
EXTENDS Integers, Sequences, FiniteSets, TLC

(***************************************************************************)
(* Bounds of the model.                                                    *)
(***************************************************************************)
\* updateStateAndDb calls that run side by side: 1..NumCalls
NumCalls == 2
\* ids the sentence table's key generator hands out: 1..MaxId
MaxId == 2
\* journals 1..NumJournals exist
NumJournals == 2
\* resources 1..NumResources exist
NumResources == 1
\* longest id list or text list passed to one call
MaxArgs == 2

Ids         == 1..MaxId
JournalIds  == 1..NumJournals
ResourceIds == 1..NumResources
Texts       == {"a", "b"}

\* `this.$stash.journals.active` is null
NoJournal == 0

\* Sentence: the row type of db.sentences and the entity type of state.all
Sentence(id, text, journalId) == [id |-> id, journalId |-> journalId, text |-> text]
Entities == [id : Ids, journalId : JournalIds, text : Texts]

undefined == [id |-> 0, journalId |-> 0, text |-> ""]

UpdateMode == {"Replace", "Add", "Remove"}

\* sequences of length 0..n over S
SeqsUpTo(S, n) == UNION {[1..k -> S] : k \in 0..n}

Range(s) == {s[i] : i \in DOMAIN s}

IsDistinct(s) == \A i, j \in DOMAIN s : i # j => s[i] # s[j]

VARIABLES
    activeJournal,   \* $stash.journals.active: NoJournal or a journal id
    table,           \* db.sentences: id -> row
    links,           \* db.sentencesInResources: set of <<sentenceId, resourceId>>
    nextId,          \* the key generator of db.sentences (++id)
    all,             \* state.all: id -> loaded entity
    selectedIds,     \* state.selectedIds
    resSelectedIds,  \* $stash.resources.selectedIds
    pc,              \* position of the delete() call in flight, or "idle"
    ret,             \* the last call: its name, arguments and outcome
    calls,           \* the updateStateAndDb calls running side by side
    fetching,        \* the fetchResourceSentences call running beside a delete
    collection       \* the state of the collection store module

vars == <<activeJournal, table, links, nextId, all, selectedIds, resSelectedIds, pc, ret,
          calls, fetching, collection>>

\* the record of a call; fields a call does not use keep these defaults
\* (before: the selection list setSelectedIds, delete or reset was called on;
\*  ids of fetchResourceSentences: the resource it took, if any;
\*  old: the field of the row updateStateAndDb found, "" if it found no row;
\*  count of delete: the number of sentence rows its transaction deleted)
Call(op) == [op |-> op, ids |-> <<>>, mode |-> "", before |-> <<>>, texts |-> <<>>,
             value |-> undefined, key |-> "", payload |-> [isFunction |-> FALSE, value |-> ""],
             old |-> "", outcome |-> "", count |-> 0,
             listId |-> "", wordId |-> "", annex |-> FALSE, selected |-> <<>>]

\* an updateStateAndDb call running beside others: where it is ("none": not
\* made, "queued": modify() called, "in_tx": its callback has run inside its
\* write transaction, "done": the transaction has committed), its arguments
\* and the row its callback handed back
Calls == 1..NumCalls
NoCall == [phase |-> "none", id |-> 0, key |-> "",
           payload |-> [isFunction |-> FALSE, value |-> ""], staged |-> undefined]

\* a fetchResourceSentences call running beside a delete: where it is ("none":
\* not made, "read": it has read the sentences and not yet assigned them,
\* "done": it has finished with a delete started meanwhile) and what it read
NoFetch == [phase |-> "none", sentences |-> <<>>]

(***************************************************************************)
(* @/util (not among the source files): modelled from the specification.   *)
(***************************************************************************)
RECURSIVE Dedup(_)
\* [...new Set(values)]: the first occurrence of every value, in order
Dedup(s) ==
    IF s = <<>> THEN <<>>
    ELSE LET front == Dedup(SubSeq(s, 1, Len(s) - 1))
             last  == s[Len(s)]
         IN IF last \in Range(front) THEN front ELSE Append(front, last)

updateArrayWithValues(array, values, updateMode) ==
    CASE updateMode = "Replace" -> Dedup(values)
      [] updateMode = "Add"     -> Dedup(array \o values)
      [] updateMode = "Remove"  -> SelectSeq(array, LAMBDA x : x \notin Range(values))

areArraysEqual(a, b) == a = b

intersectArrays(a, b) == SelectSeq(a, LAMBDA x : x \in Range(b))

(***************************************************************************)
(* EntryStash                                                              *)
(***************************************************************************)
get(id) == IF id \in DOMAIN all THEN all[id] ELSE undefined

\* Object.keys(this.all).map(k => +k): integer keys come in ascending order
RECURSIVE SortedSeq(_)
SortedSeq(S) ==
    IF S = {} THEN <<>>
    ELSE LET m == CHOOSE x \in S : \A y \in S : x <= y
         IN <<m>> \o SortedSeq(S \ {m})

allIdsOf(loaded) == SortedSeq(DOMAIN loaded)
allIds == allIdsOf(all)

\* EntryStash.isValid
entryIsValid(id) == get(id) # undefined

(***************************************************************************)
(* The collection store module (a Vuex module).  CollectionState,          *)
(* CollectionList and the storage api are not among the source files: the  *)
(* state starts empty, a list is its id and the ids of its words in        *)
(* order, and storage answers with any collection of the bounded sets.     *)
(***************************************************************************)
MaxLists == 2
MaxWords == 1
ListIds == {"l1", "l2"}
WordIds == {"w1", "w2"}
null == "null"

\* CollectionList: its id and list.index; list.words holds one word per id
WordLists == {s \in SeqsUpTo(WordIds, MaxWords) : IsDistinct(s)}
CollectionList(id, index) == [id |-> id, index |-> index]

\* new CollectionState()
CollectionState ==
    [index |-> [defaultListId |-> null], lists |-> <<>>,
     selectedLists |-> <<>>, selectedWords |-> <<>>]

\* what storage.loadCollection() can answer with
StoredCollections ==
    {[index |-> [defaultListId |-> d], lists |-> [l \in DOMAIN w |-> CollectionList(l, w[l])]] :
        d \in ListIds \cup {null},
        w \in UNION {[S -> WordLists] : S \in {T \in SUBSET ListIds : Cardinality(T) <= MaxLists}}}

\* Array.prototype.findIndex on the ids of a list of entries, -1 as 0
findIndex(entries, id) ==
    IF \E i \in DOMAIN entries : entries[i] = id
    THEN CHOOSE i \in DOMAIN entries :
             entries[i] = id /\ \A j \in 1..(i - 1) : entries[j] # id
    ELSE 0

\* Array.prototype.splice(index, 1)
splice(entries, index) ==
    [i \in 1..(Len(entries) - 1) |-> IF i < index THEN entries[i] ELSE entries[i + 1]]

idsOf(entries) == [i \in DOMAIN entries |-> entries[i].id]

\* SELECT_LIST pushing without looking for the list among the selected
SELECT_LIST_noCheck(state, list) ==
    [state EXCEPT !.selectedLists = Append(@, list)]

SELECT_LIST(state, list) ==
    IF findIndex(idsOf(state.selectedLists), list.id) # 0
    THEN state
    ELSE [state EXCEPT !.selectedLists = Append(@, list)]

DESELECT_LIST(state, list) ==
    LET index == findIndex(idsOf(state.selectedLists), list.id)
    IN IF index = 0 THEN state
       ELSE [state EXCEPT !.selectedLists = splice(@, index)]

DESELECT_ALL_LISTS(state) == [state EXCEPT !.selectedLists = <<>>]

SELECT_WORD(state, word) ==
    IF findIndex(state.selectedWords, word) # 0
    THEN state
    ELSE [state EXCEPT !.selectedWords = Append(@, word)]

DESELECT_WORD(state, word) ==
    LET index == findIndex(state.selectedWords, word)
    IN IF index = 0 THEN state
       ELSE [state EXCEPT !.selectedWords = splice(@, index)]

DESELECT_ALL_WORDS(state) == [state EXCEPT !.selectedWords = <<>>]

SET_INDEX(state, index) == [state EXCEPT !.index = index]
SET_LISTS(state, lists) == [state EXCEPT !.lists = lists]
SET_DEFAULT_LIST(state, list) == [state EXCEPT !.index.defaultListId = list.id]

\* ADD_LIST: state.addList(tree, list)
ADD_LIST(state, list) ==
    [state EXCEPT !.lists = [l \in DOMAIN state.lists \cup {list.id} |->
                                IF l = list.id THEN list ELSE state.lists[l]]]

\* context.commit(type, payload): the mutation registered under the type is
\* run; a type no mutation is registered under changes nothing
commit(state, type, payload) ==
    CASE type = "SET_INDEX" -> SET_INDEX(state, payload)
      [] type = "SET_LISTS" -> SET_LISTS(state, payload)
      [] type = "SET_DEFAULT_LIST" -> SET_DEFAULT_LIST(state, payload)
      [] type = "ADD_LIST" -> ADD_LIST(state, payload)
      [] type = "SELECT_LIST" -> SELECT_LIST(state, payload)
      [] type = "DESELECT_LIST" -> DESELECT_LIST(state, payload)
      [] type = "DESELECT_ALL_LISTS" -> DESELECT_ALL_LISTS(state)
      [] type = "SELECT_WORD" -> SELECT_WORD(state, payload)
      [] type = "DESELECT_WORD" -> DESELECT_WORD(state, payload)
      [] type = "DESELECT_ALL_WORDS" -> DESELECT_ALL_WORDS(state)
      [] OTHER -> state

\* getters.getPooledWords: the words of the selected lists, in order
RECURSIVE concatIndexes(_)
concatIndexes(lists) ==
    IF lists = <<>> THEN <<>> ELSE Head(lists).index \o concatIndexes(Tail(lists))

getPooledWords(state) ==
    IF Len(state.selectedLists) = 0 THEN <<>> ELSE concatIndexes(state.selectedLists)

\* the list of state.lists.values() that has the word, if any
listsWithWord(state, wordId) ==
    {l \in DOMAIN state.lists : wordId \in Range(state.lists[l].index)}

\* actions.addList
addList(state, list) ==
    LET added == commit(state, "ADD_LIST", list)
    IN IF added.index.defaultListId = null
       THEN commit(added, "SET_DEFAULT_LIST", list)
       ELSE added

\* the tail of fetchIndex: the default list, if known, is selected
selectDefaultList(state) ==
    IF state.index.defaultListId = null THEN state
    ELSE IF state.index.defaultListId \notin DOMAIN state.lists THEN state
    ELSE commit(state, "SELECT_LIST", state.lists[state.index.defaultListId])

collectionFrame ==
    UNCHANGED <<activeJournal, table, links, nextId, all, selectedIds, resSelectedIds, pc,
                calls, fetching>>

\* actions.fetchIndex with no stored collection: a new list with the id newId
fetchIndexNew(newId) ==
    /\ newId \notin DOMAIN collection.lists
    /\ LET added == addList(collection, CollectionList(newId, <<>>))
           set == commit(commit(added, "SET_INDEX", added.index), "SET_LISTS", added.lists)
       IN collection' = selectDefaultList(set)
    /\ ret' = [Call("fetchIndex") EXCEPT !.outcome = "ok"]
    /\ collectionFrame

\* actions.fetchIndex with a stored collection
fetchIndexStored(stored) ==
    /\ LET set == commit(commit(collection, "SET_INDEX", stored.index),
                         "SET_LISTS", stored.lists)
       IN collection' = selectDefaultList(set)
    /\ ret' = [Call("fetchIndex") EXCEPT !.outcome = "ok"]
    /\ collectionFrame

selectList(listId, annex) ==
    /\ LET cleared == IF ~annex THEN commit(collection, "DESELECT_ALL_LISTS", null)
                      ELSE collection
       IN collection' = IF listId \notin DOMAIN cleared.lists THEN cleared
                        ELSE commit(cleared, "SELECT_LIST", cleared.lists[listId])
    /\ ret' = [Call("selectList") EXCEPT
                  !.listId = listId, !.annex = annex, !.outcome = "ok",
                  !.selected = idsOf(collection.selectedLists)]
    /\ collectionFrame

deselectList(listId) ==
    /\ collection' = IF listId \notin DOMAIN collection.lists THEN collection
                     ELSE commit(collection, "DESELECT_LIST", collection.lists[listId])
    /\ ret' = [Call("deselectList") EXCEPT !.listId = listId, !.outcome = "ok"]
    /\ collectionFrame

deselectAllLists ==
    /\ collection' = commit(collection, "DESELECT_ALL_LISTS", null)
    /\ ret' = [Call("deselectAllLists") EXCEPT !.outcome = "ok"]
    /\ collectionFrame

selectWord(wordId, annex) ==
    /\ LET cleared == IF ~annex THEN commit(collection, "DESELECT_ALL_WORDS", null)
                      ELSE collection
       IN collection' = IF wordId \notin Range(getPooledWords(cleared)) THEN cleared
                        ELSE commit(cleared, "SELECT_WORD", wordId)
    /\ ret' = [Call("selectWord") EXCEPT
                  !.wordId = wordId, !.annex = annex, !.outcome = "ok"]
    /\ collectionFrame

deselectWord(wordId) ==
    /\ collection' = IF listsWithWord(collection, wordId) = {} THEN collection
                     ELSE commit(collection, "DESELECT_WORD", wordId)
    /\ ret' = [Call("deselectWord") EXCEPT !.wordId = wordId, !.outcome = "ok"]
    /\ collectionFrame

deselectAllWords ==
    /\ collection' = commit(collection, "DESELECT_ALL_Words", null)
    /\ ret' = [Call("deselectAllWords") EXCEPT
                  !.outcome = "ok", !.selected = collection.selectedWords]
    /\ collectionFrame

Init ==
    /\ activeJournal = NoJournal
    /\ table = <<>>
    /\ links = {}
    /\ nextId = 1
    /\ all = <<>>
    /\ selectedIds = <<>>
    /\ resSelectedIds = <<>>
    /\ pc = "idle"
    /\ ret = Call("init")
    /\ calls = [c \in Calls |-> NoCall]
    /\ fetching = NoFetch
    /\ collection = CollectionState

\* the journals module makes j the active journal, or none
setActiveJournal(j) ==
    /\ pc = "idle"
    /\ activeJournal' = j
    /\ ret' = [Call("setActiveJournal") EXCEPT !.outcome = "ok"]
    /\ UNCHANGED <<table, links, nextId, all, selectedIds, resSelectedIds, pc, calls,
                   fetching, collection>>

\* reset with the state class of BaseStash (all only, no selectedIds)
reset_baseStateClass ==
    /\ pc = "idle"
    /\ all' = <<>>
    /\ selectedIds' = selectedIds
    /\ ret' = [Call("reset") EXCEPT !.before = selectedIds, !.outcome = "ok"]
    /\ UNCHANGED <<activeJournal, table, links, nextId, resSelectedIds, pc, calls,
                   fetching, collection>>

\* BaseStash.reset: Object.assign(this.state, new this.StateClass())
\* (ret.before: the selection list it was called on)
reset ==
    /\ pc = "idle"
    /\ all' = <<>>
    /\ selectedIds' = <<>>
    /\ ret' = [Call("reset") EXCEPT !.before = selectedIds, !.outcome = "ok"]
    /\ UNCHANGED <<activeJournal, table, links, nextId, resSelectedIds, pc, calls,
                   fetching, collection>>

\* addToAll without its guard (the putInState the source has commented out)
addToAll_overwrite(value) ==
    /\ pc = "idle"
    /\ all' = [id \in DOMAIN all \cup {value.id} |->
                  IF id = value.id THEN value ELSE all[id]]
    /\ ret' = [Call("addToAll") EXCEPT !.value = value, !.outcome = "ok"]
    /\ UNCHANGED <<activeJournal, table, links, nextId, selectedIds, resSelectedIds, pc,
                   calls, fetching, collection>>

addToAll(value) ==
    /\ pc = "idle"
    /\ IF get(value.id) # undefined
       THEN /\ ret' = [Call("addToAll") EXCEPT !.value = value, !.outcome = "error"]
            /\ UNCHANGED all
       ELSE /\ all' = [id \in DOMAIN all \cup {value.id} |->
                          IF id = value.id THEN value ELSE all[id]]
            /\ ret' = [Call("addToAll") EXCEPT !.value = value, !.outcome = "ok"]
    /\ UNCHANGED <<activeJournal, table, links, nextId, selectedIds, resSelectedIds, pc,
                   calls, fetching, collection>>

\* the fields updateStateAndDb is called on (keyof Omit<K, 'id'>), and their values
Fields == {"text"}
Payloads == [isFunction : {FALSE}, value : Texts] \cup {[isFunction |-> TRUE, value |-> ""]}

\* getValue: a function payload is applied to the loaded entity (here entry => entry[key]),
\* a value payload is returned as it is
getValue(payload, key, stateEntry) ==
    IF payload.isFunction THEN stateEntry[key] ELSE payload.value

\* the callback that assigns the row's field only (dbEntry[key] = value)
modifyCallback_dbOnly(dbEntry, key, payload) ==
    LET stateEntry == get(dbEntry.id)
    IN IF stateEntry = undefined
       THEN [returned |-> "undefined", dbEntry |-> dbEntry, stateEntry |-> stateEntry]
       ELSE LET value == getValue(payload, key, stateEntry)
            IN IF dbEntry[key] = value
               THEN [returned |-> "undefined", dbEntry |-> dbEntry, stateEntry |-> stateEntry]
               ELSE [returned |-> "undefined",
                     dbEntry |-> [dbEntry EXCEPT ![key] = value],
                     stateEntry |-> stateEntry]

\* the callback updateStateAndDb hands to modify(): what it returns, and the row
\* and the loaded entity as it leaves them
modifyCallback(dbEntry, key, payload) ==
    LET stateEntry == get(dbEntry.id)
    IN IF stateEntry = undefined
       THEN [returned |-> "undefined", dbEntry |-> dbEntry, stateEntry |-> stateEntry]
       ELSE LET value == getValue(payload, key, stateEntry)
            IN IF dbEntry[key] = value
               THEN [returned |-> "undefined", dbEntry |-> dbEntry, stateEntry |-> stateEntry]
               ELSE [returned |-> "undefined",
                     dbEntry |-> [dbEntry EXCEPT ![key] = value],
                     stateEntry |-> [stateEntry EXCEPT ![key] = value]]

\* Dexie's Collection.modify(fn): fn runs on every matching row; the row is put
\* back and counted unless fn returns exactly false
modifyWrites(returned) == returned # "false"

updateStateAndDb(id, key, payload) ==
    /\ pc = "idle"
    /\ IF id \notin DOMAIN table
       THEN /\ ret' = [Call("updateStateAndDb") EXCEPT
                          !.ids = <<id>>, !.key = key, !.payload = payload,
                          !.outcome = "ok", !.count = 0]
            /\ UNCHANGED <<table, all>>
       ELSE LET cb == modifyCallback(table[id], key, payload)
            IN /\ table' = IF modifyWrites(cb.returned)
                           THEN [table EXCEPT ![id] = cb.dbEntry] ELSE table
               /\ all' = IF cb.stateEntry = undefined THEN all
                         ELSE [all EXCEPT ![id] = cb.stateEntry]
               /\ ret' = [Call("updateStateAndDb") EXCEPT
                             !.ids = <<id>>, !.key = key, !.payload = payload,
                             !.old = table[id][key], !.outcome = "ok",
                             !.count = IF modifyWrites(cb.returned) THEN 1 ELSE 0]
    /\ UNCHANGED <<activeJournal, links, nextId, selectedIds, resSelectedIds, pc, calls,
                   fetching, collection>>

\* updateStateAndDb step by step: modify() runs its callback on the matching
\* row inside the write transaction; the loaded entity is assigned there, the
\* row handed back is put when the callback has returned (ret.value: that row)
modify(id, key, payload) ==
    /\ pc = "idle"
    /\ IF id \notin DOMAIN table
       THEN /\ ret' = [Call("updateStateAndDb") EXCEPT
                          !.ids = <<id>>, !.key = key, !.payload = payload,
                          !.outcome = "ok", !.count = 0]
            /\ UNCHANGED <<all, pc>>
       ELSE LET cb == modifyCallback(table[id], key, payload)
            IN /\ all' = IF cb.stateEntry = undefined THEN all
                         ELSE [all EXCEPT ![id] = cb.stateEntry]
               /\ ret' = [Call("updateStateAndDb") EXCEPT
                             !.ids = <<id>>, !.key = key, !.payload = payload,
                             !.old = table[id][key],
                             !.value = IF modifyWrites(cb.returned) THEN cb.dbEntry
                                       ELSE table[id],
                             !.outcome = "pending"]
               /\ pc' = "modify_commit"
    /\ UNCHANGED <<activeJournal, table, links, nextId, selectedIds, resSelectedIds,
                   calls, fetching, collection>>

\* the put succeeds and the transaction of modify() commits
modifyCommit ==
    /\ pc = "modify_commit"
    /\ table' = [table EXCEPT ![ret.ids[1]] = ret.value]
    /\ ret' = [ret EXCEPT !.outcome = "ok", !.count = 1]
    /\ pc' = "idle"
    /\ UNCHANGED <<activeJournal, links, nextId, all, selectedIds, resSelectedIds, calls,
                   fetching, collection>>

\* the put fails and the transaction of modify() is rolled back: the promise
\* updateStateAndDb returned rejects
modifyAbort ==
    /\ pc = "modify_commit"
    /\ ret' = [ret EXCEPT !.outcome = "error"]
    /\ pc' = "idle"
    /\ UNCHANGED <<activeJournal, table, links, nextId, all, selectedIds, resSelectedIds,
                   calls, fetching, collection>>

\* updateStateAndDb calls side by side. The call itself only hands the
\* callback to modify() and returns its promise.
callUpdateStateAndDb(c, id, key, payload) ==
    /\ pc = "idle"
    /\ calls[c].phase = "none"
    /\ calls' = [calls EXCEPT ![c] = [NoCall EXCEPT !.phase = "queued", !.id = id,
                                                    !.key = key, !.payload = payload]]
    /\ UNCHANGED <<activeJournal, table, links, nextId, all, selectedIds, resSelectedIds,
                   pc, ret, fetching, collection>>

\* modifyBegin over a store that lets write transactions overlap
modifyBegin_notSerialized(c) ==
    /\ calls[c].phase = "queued"
    /\ LET id == calls[c].id
       IN IF id \notin DOMAIN table
          THEN /\ calls' = [calls EXCEPT ![c].phase = "done"]
               /\ UNCHANGED all
          ELSE LET cb == modifyCallback(table[id], calls[c].key, calls[c].payload)
               IN /\ all' = IF cb.stateEntry = undefined THEN all
                            ELSE [all EXCEPT ![id] = cb.stateEntry]
                  /\ calls' = [calls EXCEPT ![c].phase = "in_tx",
                                            ![c].staged = IF modifyWrites(cb.returned)
                                                          THEN cb.dbEntry ELSE table[id]]
    /\ UNCHANGED <<activeJournal, table, links, nextId, selectedIds, resSelectedIds, pc,
                   ret, fetching, collection>>

\* the write transaction of a queued modify() starts, once no other write
\* transaction on the table is running (the store runs them one at a time),
\* reads the row and runs the callback on it
modifyBegin(c) ==
    /\ calls[c].phase = "queued"
    /\ \A d \in Calls \ {c} : calls[d].phase # "in_tx"
    /\ LET id == calls[c].id
       IN IF id \notin DOMAIN table
          THEN /\ calls' = [calls EXCEPT ![c].phase = "done"]
               /\ UNCHANGED all
          ELSE LET cb == modifyCallback(table[id], calls[c].key, calls[c].payload)
               IN /\ all' = IF cb.stateEntry = undefined THEN all
                            ELSE [all EXCEPT ![id] = cb.stateEntry]
                  /\ calls' = [calls EXCEPT ![c].phase = "in_tx",
                                            ![c].staged = IF modifyWrites(cb.returned)
                                                          THEN cb.dbEntry ELSE table[id]]
    /\ UNCHANGED <<activeJournal, table, links, nextId, selectedIds, resSelectedIds, pc,
                   ret, fetching, collection>>

\* the row is put and the write transaction commits
modifyEnd(c) ==
    /\ calls[c].phase = "in_tx"
    /\ table' = [table EXCEPT ![calls[c].id] = calls[c].staged]
    /\ calls' = [calls EXCEPT ![c].phase = "done"]
    /\ UNCHANGED <<activeJournal, links, nextId, all, selectedIds, resSelectedIds, pc,
                   ret, fetching, collection>>

\* no call is under way
Quiet == \A c \in Calls : calls[c].phase = "none"

\* every call made has completed and its promise has been consumed
settle ==
    /\ \E c \in Calls : calls[c].phase = "done"
    /\ \A c \in Calls : calls[c].phase \in {"none", "done"}
    /\ calls' = [c \in Calls |-> NoCall]
    /\ UNCHANGED <<activeJournal, table, links, nextId, all, selectedIds, resSelectedIds,
                   pc, ret, fetching, collection>>

(***************************************************************************)
(* CommonEntryStash                                                        *)
(***************************************************************************)
\* isValid without the journal check (EntryStash.isValid, not overridden)
isValidIn_unscoped(loaded, id) ==
    IF activeJournal = NoJournal THEN "throws"
    ELSE IF id \in DOMAIN loaded THEN "true" ELSE "false"

\* CommonEntryStash.isValid against a mapping: "throws", "true" or "false"
isValidIn(loaded, id) ==
    IF activeJournal = NoJournal THEN "throws"
    ELSE LET entry == IF id \in DOMAIN loaded THEN loaded[id] ELSE undefined
         IN IF entry # undefined /\ entry.journalId = activeJournal
            THEN "true" ELSE "false"

isValid(id) == isValidIn(all, id)

\* isValidDBCommonEntry(table, {id, journalId}): a row with this id and journal exists
isValidDBCommonEntry(id, journalId) ==
    id \in DOMAIN table /\ table[id].journalId = journalId

\* isValidInDb as EntryStash has it (a row with this id exists), not overridden
isValidInDb_notOverridden(id) ==
    IF activeJournal = NoJournal THEN "throws"
    ELSE IF id \in DOMAIN table THEN "true" ELSE "false"

\* CommonEntryStash.isValidInDb: what the returned promise settles to
isValidInDb(id) ==
    IF activeJournal = NoJournal THEN "throws"
    ELSE IF isValidDBCommonEntry(id, activeJournal) THEN "true" ELSE "false"

\* setSelectedIds without the areArraysEqual short-circuit
setSelectedIdsResult_noEqualCheck(loaded, selected, entryIds, updateMode) ==
    IF \E i \in DOMAIN entryIds : isValidIn(loaded, entryIds[i]) # "true"
    THEN [outcome |-> "error", selectedIds |-> selected]
    ELSE [outcome |-> "changed",
          selectedIds |-> updateArrayWithValues(selected, entryIds, updateMode)]

\* setSelectedIds that does not pass updateMode on (updateArrayWithValues defaults to Replace)
setSelectedIdsResult_modeDropped(loaded, selected, entryIds, updateMode) ==
    LET newSelectedEntryIds == updateArrayWithValues(selected, entryIds, "Replace")
    IN IF \E i \in DOMAIN entryIds : isValidIn(loaded, entryIds[i]) # "true"
       THEN [outcome |-> "error", selectedIds |-> selected]
       ELSE IF areArraysEqual(selected, newSelectedEntryIds)
            THEN [outcome |-> "unchanged", selectedIds |-> selected]
            ELSE [outcome |-> "changed", selectedIds |-> newSelectedEntryIds]

\* setSelectedIds that validates while it applies: the ids before the first
\* invalid one are already in the list when it throws
setSelectedIdsResult_validateLate(loaded, selected, entryIds, updateMode) ==
    LET bad == {i \in DOMAIN entryIds : isValidIn(loaded, entryIds[i]) # "true"}
        newSelectedEntryIds == updateArrayWithValues(selected, entryIds, updateMode)
    IN IF bad # {}
       THEN LET first == CHOOSE i \in bad : \A j \in bad : i <= j
            IN [outcome |-> "error",
                selectedIds |-> updateArrayWithValues(selected,
                                    SubSeq(entryIds, 1, first - 1), updateMode)]
       ELSE IF areArraysEqual(selected, newSelectedEntryIds)
            THEN [outcome |-> "unchanged", selectedIds |-> selected]
            ELSE [outcome |-> "changed", selectedIds |-> newSelectedEntryIds]

\* setSelectedIds that pushes the input onto the list itself in Add mode
setSelectedIdsResult_pushes(loaded, selected, entryIds, updateMode) ==
    LET newSelectedEntryIds == IF updateMode = "Add" THEN selected \o entryIds
                               ELSE updateArrayWithValues(selected, entryIds, updateMode)
    IN IF \E i \in DOMAIN entryIds : isValidIn(loaded, entryIds[i]) # "true"
       THEN [outcome |-> "error", selectedIds |-> selected]
       ELSE IF areArraysEqual(selected, newSelectedEntryIds)
            THEN [outcome |-> "unchanged", selectedIds |-> selected]
            ELSE [outcome |-> "changed", selectedIds |-> newSelectedEntryIds]

\* setSelectedIds run on a selection list, validated against a mapping:
\* whether it threw, what it returned and the selection list it leaves
setSelectedIdsResult(loaded, selected, entryIds, updateMode) ==
    LET newSelectedEntryIds == updateArrayWithValues(selected, entryIds, updateMode)
    IN IF \E i \in DOMAIN entryIds : isValidIn(loaded, entryIds[i]) # "true"
       THEN [outcome |-> "error", selectedIds |-> selected]
       ELSE IF areArraysEqual(selected, newSelectedEntryIds)
            THEN [outcome |-> "unchanged", selectedIds |-> selected]
            ELSE [outcome |-> "changed", selectedIds |-> newSelectedEntryIds]

setSelectedIds(entryIds, updateMode) ==
    /\ pc = "idle"
    /\ LET r == setSelectedIdsResult(all, selectedIds, entryIds, updateMode)
       IN /\ selectedIds' = r.selectedIds
          /\ ret' = [Call("setSelectedIds") EXCEPT
                        !.ids = entryIds, !.mode = updateMode, !.before = selectedIds,
                        !.outcome = r.outcome]
    /\ UNCHANGED <<activeJournal, table, links, nextId, all, resSelectedIds, pc, calls,
                   fetching, collection>>

(***************************************************************************)
(* The database collaborators of @/api/db and Dexie's bulk reads.          *)
(***************************************************************************)
\* Table.bulkGet(keys): the rows in key order, undefined where there is none
bulkGet(T, keys) ==
    [i \in DOMAIN keys |-> IF keys[i] \in DOMAIN T THEN T[keys[i]] ELSE undefined]

\* the ids of the sentences linked to a resource
getResourceSentenceIds(resourceId) ==
    SortedSeq({l[1] : l \in {k \in links : k[2] = resourceId}})

\* putSentenceInResource: the relationship row it upserts
putSentenceInResource(sentenceId, resourceId) == <<sentenceId, resourceId>>

\* reduceArrayToObject: id -> entity
reduceArrayToObject(entries) ==
    LET found == {entries[i] : i \in DOMAIN entries} \ {undefined}
    IN [id \in {e.id : e \in found} |-> CHOOSE e \in found : e.id = id]

\* the resources module changes its selection
selectResources(ids) ==
    /\ pc = "idle"
    /\ resSelectedIds' = ids
    /\ ret' = [Call("selectResources") EXCEPT !.outcome = "ok"]
    /\ UNCHANGED <<activeJournal, table, links, nextId, all, selectedIds, pc, calls,
                   fetching, collection>>

(***************************************************************************)
(* SentencesModule                                                         *)
(***************************************************************************)
\* fetchResourceSentences that replaces the mapping and does not re-select
fetchLoad_noReselect(selectedResourceId) ==
    LET sentenceIds == getResourceSentenceIds(selectedResourceId)
        sentences   == bulkGet(table, sentenceIds)
    IN [all |-> reduceArrayToObject(sentences), selectedIds |-> selectedIds]

\* fetchResourceSentences past its early return: the mapping and the selection
\* it leaves for the resource it took
fetchLoad(selectedResourceId) ==
    LET sentenceIds == getResourceSentenceIds(selectedResourceId)
        sentences   == bulkGet(table, sentenceIds)
        loaded      == reduceArrayToObject(sentences)
        \* not awaited: a rejection of setSelectedIds is lost
        sel == setSelectedIdsResult(loaded, selectedIds,
                   intersectArrays(selectedIds, allIdsOf(loaded)), "Replace")
    IN [all |-> loaded, selectedIds |-> sel.selectedIds]

\* fetchResourceSentences without `if (!selectedResourceId) return`
fetchResult_noEarlyReturn ==
    IF activeJournal = NoJournal
    THEN [outcome |-> "error", all |-> all, selectedIds |-> selectedIds,
          resSelectedIds |-> resSelectedIds, used |-> <<>>]
    ELSE LET r == fetchLoad(IF resSelectedIds = <<>> THEN 0 ELSE Head(resSelectedIds))
         IN [outcome |-> "ok", all |-> r.all, selectedIds |-> r.selectedIds,
             resSelectedIds |-> IF resSelectedIds = <<>> THEN <<>> ELSE Tail(resSelectedIds),
             used |-> IF resSelectedIds = <<>> THEN <<>> ELSE <<Head(resSelectedIds)>>]

\* fetchResourceSentences from the current state: whether it threw, and the
\* mapping, the selection and the resources' selection it leaves
\* (used: the resource the call took off the resources' selection, if any)
fetchResult ==
    IF activeJournal = NoJournal
    THEN [outcome |-> "error", all |-> all, selectedIds |-> selectedIds,
          resSelectedIds |-> resSelectedIds, used |-> <<>>]
    ELSE IF resSelectedIds = <<>>
    THEN [outcome |-> "ok", all |-> all, selectedIds |-> selectedIds,
          resSelectedIds |-> resSelectedIds, used |-> <<>>]
    ELSE LET selectedResourceId == Head(resSelectedIds)
             r == fetchLoad(selectedResourceId)
         IN [outcome |-> "ok", all |-> r.all, selectedIds |-> r.selectedIds,
             resSelectedIds |-> Tail(resSelectedIds), used |-> <<selectedResourceId>>]

fetchResourceSentences ==
    /\ pc = "idle"
    /\ LET r == fetchResult
       IN /\ all' = r.all
          /\ selectedIds' = r.selectedIds
          /\ resSelectedIds' = r.resSelectedIds
          /\ ret' = [Call("fetchResourceSentences") EXCEPT
                        !.ids = r.used, !.outcome = r.outcome]
    /\ UNCHANGED <<activeJournal, table, links, nextId, pc, calls, fetching, collection>>

\* fetchResourceSentences step by step, with a journal active and a resource
\* selected: it takes the resource and reads the linked rows (lines 30-34)
fetchBegin ==
    /\ fetching.phase = "none"
    /\ pc = "idle"
    /\ activeJournal # NoJournal
    /\ resSelectedIds # <<>>
    /\ LET selectedResourceId == Head(resSelectedIds)
           sentenceIds == getResourceSentenceIds(selectedResourceId)
       IN /\ fetching' = [phase |-> "read", sentences |-> bulkGet(table, sentenceIds)]
          /\ ret' = [Call("fetchResourceSentences") EXCEPT
                        !.ids = <<selectedResourceId>>, !.outcome = "pending"]
    /\ resSelectedIds' = Tail(resSelectedIds)
    /\ UNCHANGED <<activeJournal, table, links, nextId, all, selectedIds, pc, calls, collection>>

\* the rows read are assigned and the selection is re-derived (lines 36-39),
\* whatever has happened since they were read
fetchEnd ==
    /\ fetching.phase = "read"
    /\ LET loaded == reduceArrayToObject(fetching.sentences)
           sel == setSelectedIdsResult(loaded, selectedIds,
                      intersectArrays(selectedIds, allIdsOf(loaded)), "Replace")
       IN /\ all' = loaded
          /\ selectedIds' = sel.selectedIds
    /\ fetching' = IF ret.op = "delete" THEN [NoFetch EXCEPT !.phase = "done"] ELSE NoFetch
    /\ ret' = IF ret.op = "fetchResourceSentences" THEN [ret EXCEPT !.outcome = "ok"] ELSE ret
    /\ UNCHANGED <<activeJournal, table, links, nextId, resSelectedIds, pc, calls, collection>>

\* the callers have seen both calls finish
fetchSettle ==
    /\ fetching.phase = "done"
    /\ pc = "idle"
    /\ fetching' = NoFetch
    /\ UNCHANGED <<activeJournal, table, links, nextId, all, selectedIds, resSelectedIds,
                   pc, ret, calls, collection>>

\* new over a data layer that fails to hold the rows `lost` of those bulkAdd
\* reported: the read-back inside the transaction finds no row for them
newTx(texts, lost) ==
    /\ pc = "idle"
    /\ IF activeJournal = NoJournal
       THEN /\ ret' = [Call("new") EXCEPT !.texts = texts, !.outcome = "error"]
            /\ UNCHANGED <<table, nextId>>
       ELSE /\ nextId + Len(texts) - 1 <= MaxId
            /\ LET textList == texts
                   \* bulkAdd(..., { allKeys: true })
                   newSentenceIds == [i \in DOMAIN textList |-> nextId + i - 1]
                   added == [id \in (DOMAIN table \cup Range(newSentenceIds)) \ lost |->
                               IF id \in DOMAIN table THEN table[id]
                               ELSE Sentence(id, textList[id - nextId + 1], activeJournal)]
                   newSentences == bulkGet(added, newSentenceIds)
               IN /\ lost \subseteq Range(newSentenceIds)
                  /\ IF Len(newSentences) # Len(textList)
                     THEN \* the transaction is rolled back
                          /\ ret' = [Call("new") EXCEPT !.texts = texts, !.outcome = "error"]
                          /\ UNCHANGED <<table, nextId>>
                     ELSE /\ table' = added
                          /\ nextId' = nextId + Len(textList)
                          /\ ret' = [Call("new") EXCEPT !.texts = texts,
                                        !.ids = newSentenceIds, !.outcome = "ok"]
    /\ UNCHANGED <<activeJournal, links, all, selectedIds, resSelectedIds, pc, calls,
                   fetching, collection>>

\* new over a data layer that holds what it reported
new(texts) == newTx(texts, {})

\* delete's guard `!this.isValidInDb(sentenceId)` negates the promise the async
\* isValidInDb returns, not what it settles to: a promise is truthy
deleteGuardThrows(sentenceId) == FALSE

\* delete, up to the commit of its transaction
delete(sentenceIds) ==
    /\ pc = "idle"
    /\ IF \E i \in DOMAIN sentenceIds : deleteGuardThrows(sentenceIds[i])
       THEN /\ ret' = [Call("delete") EXCEPT !.ids = sentenceIds,
                          !.before = selectedIds, !.outcome = "error"]
            /\ UNCHANGED <<table, links, pc>>
       ELSE /\ table' = [id \in DOMAIN table \ Range(sentenceIds) |-> table[id]]
            /\ links' = {l \in links : l[1] \notin Range(sentenceIds)}
            /\ pc' = "delete_select"
            /\ ret' = [Call("delete") EXCEPT !.ids = sentenceIds,
                          !.before = selectedIds, !.outcome = "pending",
                          !.count = Cardinality(DOMAIN table \cap Range(sentenceIds))]
    /\ UNCHANGED <<activeJournal, nextId, all, selectedIds, resSelectedIds, calls,
                   fetching, collection>>

\* delete: await this.setSelectedIds(sentenceIdList, UpdateMode.Remove)
deleteSelect ==
    /\ pc = "delete_select"
    /\ LET r == setSelectedIdsResult(all, selectedIds, ret.ids, "Remove")
       IN /\ selectedIds' = r.selectedIds
          /\ IF r.outcome = "error"
             THEN /\ pc' = "idle"
                  /\ ret' = [ret EXCEPT !.outcome = "error"]
             ELSE /\ pc' = "delete_fetch"
                  /\ ret' = ret
    /\ UNCHANGED <<activeJournal, table, links, nextId, all, resSelectedIds, calls,
                   fetching, collection>>

\* delete: await this.fetchResourceSentences()
deleteFetch ==
    /\ pc = "delete_fetch"
    /\ LET r == fetchResult
       IN /\ all' = r.all
          /\ selectedIds' = r.selectedIds
          /\ resSelectedIds' = r.resSelectedIds
          /\ ret' = [ret EXCEPT !.outcome = r.outcome]
    /\ pc' = "idle"
    /\ UNCHANGED <<activeJournal, table, links, nextId, calls, fetching, collection>>

\* putSentencesInResource without db.transaction around its upserts: the
\* children whose upsert succeeds stay linked when another one fails
putSentencesInResourceTx_noTransaction(sentenceIds, resourceId, failed) ==
    /\ pc = "idle"
    /\ IF activeJournal = NoJournal
       THEN /\ ret' = [Call("putSentencesInResource") EXCEPT
                          !.ids = sentenceIds, !.outcome = "error"]
            /\ UNCHANGED links
       ELSE /\ links' = links \cup {putSentenceInResource(sentenceIds[i], resourceId) :
                                        i \in {j \in DOMAIN sentenceIds :
                                                  sentenceIds[j] \notin failed}}
            /\ ret' = [Call("putSentencesInResource") EXCEPT
                          !.ids = sentenceIds,
                          !.outcome = IF Range(sentenceIds) \cap failed # {}
                                      THEN "error" ELSE "ok"]
    /\ UNCHANGED <<activeJournal, table, nextId, all, selectedIds, resSelectedIds, pc,
                   calls, fetching, collection>>

\* putSentencesInResource over a data layer where the upsert of the children
\* `failed` fails: Promise.all rejects and the transaction is rolled back
putSentencesInResourceTx(sentenceIds, resourceId, failed) ==
    /\ pc = "idle"
    /\ IF activeJournal = NoJournal
       THEN /\ ret' = [Call("putSentencesInResource") EXCEPT
                          !.ids = sentenceIds, !.outcome = "error"]
            /\ UNCHANGED links
       ELSE IF Range(sentenceIds) \cap failed # {}
       THEN /\ ret' = [Call("putSentencesInResource") EXCEPT
                          !.ids = sentenceIds, !.outcome = "error"]
            /\ UNCHANGED links
       ELSE /\ links' = links \cup {putSentenceInResource(sentenceIds[i], resourceId) :
                                        i \in DOMAIN sentenceIds}
            /\ ret' = [Call("putSentencesInResource") EXCEPT
                          !.ids = sentenceIds, !.outcome = "ok"]
    /\ UNCHANGED <<activeJournal, table, nextId, all, selectedIds, resSelectedIds, pc,
                   calls, fetching, collection>>

\* putSentencesInResource over a data layer where every upsert succeeds
putSentencesInResource(sentenceIds, resourceId) ==
    putSentencesInResourceTx(sentenceIds, resourceId, {})

(***************************************************************************)
(* Specifications                                                          *)
(***************************************************************************)
IdLists   == SeqsUpTo(Ids, MaxArgs)
TextLists == SeqsUpTo(Texts, MaxArgs)

\* an EntryStash under its protected operations, its table filled by new
NextEntry ==
    \/ \E j \in JournalIds \cup {NoJournal} : setActiveJournal(j)
    \/ reset
    \/ \E value \in Entities : addToAll(value)
    \/ \E id \in Ids, key \in Fields, payload \in Payloads : updateStateAndDb(id, key, payload)
    \/ \E texts \in TextLists : new(texts)

SpecEntry == Init /\ [][NextEntry]_vars

\* a module that loads by fetch and updates through updateStateAndDb
NextUpdate ==
    \/ \E j \in JournalIds \cup {NoJournal} : setActiveJournal(j)
    \/ \E ids \in {s \in SeqsUpTo(ResourceIds, NumResources) : IsDistinct(s)} :
          selectResources(ids)
    \/ reset
    \/ fetchResourceSentences
    \/ \E texts \in TextLists : new(texts)
    \/ \E ids \in {s \in IdLists : Range(s) \subseteq DOMAIN table}, r \in ResourceIds :
          putSentencesInResource(ids, r)
    \/ \E id \in Ids, key \in Fields, payload \in Payloads : updateStateAndDb(id, key, payload)

SpecUpdate == Init /\ [][NextUpdate]_vars

\* the transactions of updateStateAndDb, new, delete and putSentencesInResource,
\* with a write transaction of modify() that may fail
NextTx ==
    \/ \E j \in JournalIds \cup {NoJournal} : setActiveJournal(j)
    \/ \E ids \in {s \in SeqsUpTo(ResourceIds, NumResources) : IsDistinct(s)} :
          selectResources(ids)
    \/ fetchResourceSentences
    \/ \E texts \in TextLists : new(texts)
    \/ \E ids \in IdLists : delete(ids)
    \/ deleteSelect
    \/ deleteFetch
    \/ \E ids \in {s \in IdLists : Range(s) \subseteq DOMAIN table}, r \in ResourceIds :
          putSentencesInResource(ids, r)
    \/ \E id \in Ids, key \in Fields, payload \in Payloads : modify(id, key, payload)
    \/ modifyCommit
    \/ modifyAbort

SpecTx == Init /\ [][NextTx]_vars

\* the SentencesModule over a data layer that may lose rows it reported added
\* and may fail the upsert of a relationship row
NextLossy ==
    \/ \E j \in JournalIds \cup {NoJournal} : setActiveJournal(j)
    \/ \E ids \in {s \in SeqsUpTo(ResourceIds, NumResources) : IsDistinct(s)} :
          selectResources(ids)
    \/ reset
    \/ fetchResourceSentences
    \/ \E texts \in TextLists, lost \in SUBSET Ids : newTx(texts, lost)
    \/ \E ids \in {s \in IdLists : Range(s) \subseteq DOMAIN table}, r \in ResourceIds,
          failed \in SUBSET Ids : putSentencesInResourceTx(ids, r, failed)

SpecLossy == Init /\ [][NextLossy]_vars

\* updateStateAndDb calls side by side on entities loaded by fetch
NextConc ==
    \/ Quiet /\ \E j \in JournalIds : setActiveJournal(j)
    \/ Quiet /\ \E ids \in {s \in SeqsUpTo(ResourceIds, NumResources) : IsDistinct(s)} :
                   selectResources(ids)
    \/ Quiet /\ fetchResourceSentences
    \/ Quiet /\ \E texts \in TextLists : new(texts)
    \/ Quiet /\ \E ids \in {s \in IdLists : Range(s) \subseteq DOMAIN table},
                      r \in ResourceIds : putSentencesInResource(ids, r)
    \/ \E c \in Calls, id \in Ids, key \in Fields, payload \in Payloads :
          callUpdateStateAndDb(c, id, key, payload)
    \/ \E c \in Calls : modifyBegin(c)
    \/ \E c \in Calls : modifyEnd(c)
    \/ settle

SpecConc == Init /\ [][NextConc]_vars

\* no fetch is running beside a delete
NotFetching == fetching.phase = "none"

\* a fetchResourceSentences call and a delete that overlap
NextRace ==
    \/ NotFetching /\ \E j \in JournalIds : setActiveJournal(j)
    \/ NotFetching /\ \E ids \in {s \in SeqsUpTo(ResourceIds, NumResources) : IsDistinct(s)} :
                         selectResources(ids)
    \/ NotFetching /\ \E ids \in IdLists : setSelectedIds(ids, "Replace")
    \/ NotFetching /\ fetchResourceSentences
    \/ NotFetching /\ \E texts \in TextLists : new(texts)
    \/ NotFetching /\ \E ids \in {s \in IdLists : Range(s) \subseteq DOMAIN table},
                            r \in ResourceIds : putSentencesInResource(ids, r)
    \/ fetchBegin
    \/ fetching.phase # "done" /\ \E ids \in IdLists : delete(ids)
    \/ deleteSelect
    \/ deleteFetch
    \/ fetchEnd
    \/ fetchSettle

SpecRace == Init /\ [][NextRace]_vars

\* the collection store as its components dispatch to it
NextCollection ==
    \/ \E newId \in ListIds : fetchIndexNew(newId)
    \/ \E stored \in StoredCollections : fetchIndexStored(stored)
    \/ \E listId \in ListIds, annex \in BOOLEAN : selectList(listId, annex)
    \/ \E listId \in ListIds : deselectList(listId)
    \/ deselectAllLists
    \/ \E wordId \in WordIds, annex \in BOOLEAN : selectWord(wordId, annex)
    \/ \E wordId \in WordIds : deselectWord(wordId)
    \/ deselectAllWords

SpecCollection == Init /\ [][NextCollection]_vars

\* ADD_WORD: list.addWord(word) on the list object, which state.lists and,
\* when the list is selected, selectedLists both hold
addWordTo(list, word) ==
    IF word \in Range(list.index) THEN list ELSE [list EXCEPT !.index = Append(@, word)]

ADD_WORD(state, listId, word) ==
    [state EXCEPT
        !.lists[listId] = addWordTo(@, word),
        !.selectedLists = [i \in DOMAIN @ |-> IF @[i].id = listId THEN addWordTo(@[i], word)
                                              ELSE @[i]]]

\* REMOVE_WORD: list.removeWord(word) on the same shared list object
removeWordFrom(list, word) ==
    IF findIndex(list.index, word) = 0 THEN list
    ELSE [list EXCEPT !.index = splice(@, findIndex(@, word))]

REMOVE_WORD(state, listId, word) ==
    [state EXCEPT
        !.lists[listId] = removeWordFrom(@, word),
        !.selectedLists = [i \in DOMAIN @ |-> IF @[i].id = listId
                                              THEN removeWordFrom(@[i], word)
                                              ELSE @[i]]]

\* actions.addList dispatched with a new list
addListNew(newId) ==
    /\ newId \notin DOMAIN collection.lists
    /\ Cardinality(DOMAIN collection.lists) < MaxLists
    /\ collection' = addList(collection, CollectionList(newId, <<>>))
    /\ ret' = [Call("addList") EXCEPT !.listId = newId, !.outcome = "ok"]
    /\ collectionFrame

addWord(listId, word) ==
    /\ listId \in DOMAIN collection.lists =>
           Len(addWordTo(collection.lists[listId], word).index) <= MaxWords
    /\ collection' = IF listId \notin DOMAIN collection.lists THEN collection
                     ELSE ADD_WORD(collection, listId, word)
    /\ ret' = [Call("addWord") EXCEPT !.listId = listId, !.wordId = word, !.outcome = "ok"]
    /\ collectionFrame

\* removeWord that leaves the removed word selected
removeWord_keepsSelected(wordId) ==
    /\ IF listsWithWord(collection, wordId) = {}
       THEN /\ collection' = collection
            /\ ret' = [Call("removeWord") EXCEPT
                          !.wordId = wordId, !.outcome = "ok",
                          !.selected = collection.selectedWords]
       ELSE \E listId \in listsWithWord(collection, wordId) :
               /\ collection' = REMOVE_WORD(collection, listId, wordId)
               /\ ret' = [Call("removeWord") EXCEPT
                             !.listId = listId, !.wordId = wordId, !.outcome = "ok",
                             !.selected = collection.selectedWords]
    /\ collectionFrame

\* actions.removeWord: a list that has the word loses it, and the word is
\* deselected
removeWord(wordId) ==
    /\ IF listsWithWord(collection, wordId) = {}
       THEN /\ collection' = collection
            /\ ret' = [Call("removeWord") EXCEPT
                          !.wordId = wordId, !.outcome = "ok",
                          !.selected = collection.selectedWords]
       ELSE \E listId \in listsWithWord(collection, wordId) :
               /\ collection' = commit(REMOVE_WORD(collection, listId, wordId),
                                       "DESELECT_WORD", wordId)
               /\ ret' = [Call("removeWord") EXCEPT
                             !.listId = listId, !.wordId = wordId, !.outcome = "ok",
                             !.selected = collection.selectedWords]
    /\ collectionFrame

\* the collection store while its lists and words are edited and selected;
\* state.lists is not replaced, so a selected list is the list of state.lists
NextWords ==
    \/ \E newId \in ListIds : addListNew(newId)
    \/ \E listId \in ListIds, word \in WordIds : addWord(listId, word)
    \/ \E wordId \in WordIds : removeWord(wordId)
    \/ \E listId \in ListIds, annex \in BOOLEAN : selectList(listId, annex)
    \/ \E listId \in ListIds : deselectList(listId)
    \/ \E wordId \in WordIds, annex \in BOOLEAN : selectWord(wordId, annex)
    \/ \E wordId \in WordIds : deselectWord(wordId)

SpecWords == Init /\ [][NextWords]_vars

(***************************************************************************)
(* The earlier StashModule: the same state (state.all) and table, with its *)
(* own addToAll, removeFromAll and updateStateAndDb.  Its subclasses are   *)
(* not among the source files: they load entries with addToAll and write   *)
(* rows through the table they share with the module.                      *)
(***************************************************************************)
stashModuleFrame ==
    UNCHANGED <<activeJournal, links, nextId, selectedIds, resSelectedIds, pc, calls,
                fetching, collection>>

\* Dexie's Table.put and Table.delete, as the users of the table call them
tablePut(value) ==
    /\ table' = [id \in DOMAIN table \cup {value.id} |->
                    IF id = value.id THEN value ELSE table[id]]
    /\ ret' = [Call("table.put") EXCEPT !.value = value, !.outcome = "ok"]
    /\ UNCHANGED all
    /\ stashModuleFrame

tableDelete(id) ==
    /\ table' = [i \in DOMAIN table \ {id} |-> table[i]]
    /\ ret' = [Call("table.delete") EXCEPT !.ids = <<id>>, !.outcome = "ok"]
    /\ UNCHANGED all
    /\ stashModuleFrame

\* StashModule.addToAll: 0 when the id is loaded, else the entry is added
StashModule_addToAll(value) ==
    /\ IF get(value.id) # undefined
       THEN /\ ret' = [Call("StashModule.addToAll") EXCEPT !.value = value, !.outcome = "0"]
            /\ UNCHANGED all
       ELSE /\ all' = [id \in DOMAIN all \cup {value.id} |->
                          IF id = value.id THEN value ELSE all[id]]
            /\ ret' = [Call("StashModule.addToAll") EXCEPT
                          !.value = value, !.outcome = "void"]
    /\ UNCHANGED table
    /\ stashModuleFrame

StashModule_removeFromAll(value) ==
    /\ all' = [id \in DOMAIN all \ {value.id} |-> all[id]]
    /\ ret' = [Call("StashModule.removeFromAll") EXCEPT !.value = value, !.outcome = "void"]
    /\ UNCHANGED table
    /\ stashModuleFrame

\* Dexie's Table.update(id, {[key]: value}): 1 when the row exists and the
\* change alters it, else 0
tableUpdateResult(rows, id, key, value) ==
    IF id \in DOMAIN rows /\ rows[id][key] # value THEN 1 ELSE 0

\* StashModule.updateStateAndDb: 0 when the entry is not
\* loaded or holds the value; else the entry is set, then the row is updated,
\* and 0 is returned when the update reports no row changed
StashModule_updateStateAndDb(id, key, value) ==
    LET entry == get(id)
        call == [Call("StashModule.updateStateAndDb") EXCEPT
                    !.ids = <<id>>, !.key = key, !.value = entry,
                    !.payload = [isFunction |-> FALSE, value |-> value],
                    !.old = IF id \in DOMAIN table THEN table[id][key] ELSE ""]
    IN /\ IF entry = undefined \/ entry[key] = value
          THEN /\ ret' = [call EXCEPT !.outcome = "0"]
               /\ UNCHANGED <<all, table>>
          ELSE LET result == tableUpdateResult(table, id, key, value)
               IN /\ all' = [all EXCEPT ![id][key] = value]
                  /\ table' = IF result = 0 THEN table ELSE [table EXCEPT ![id][key] = value]
                  /\ ret' = [call EXCEPT
                                !.outcome = IF result = 0 THEN "update 0" ELSE "void",
                                !.count = result]
       /\ stashModuleFrame

\* the earlier StashModule under its operations and the users of its table
NextStashModule ==
    \/ \E value \in Entities : tablePut(value)
    \/ \E id \in Ids : tableDelete(id)
    \/ \E value \in Entities : StashModule_addToAll(value)
    \/ \E value \in Entities : StashModule_removeFromAll(value)
    \/ \E id \in Ids, key \in Fields, value \in Texts : StashModule_updateStateAndDb(id, key, value)

SpecStashModule == Init /\ [][NextStashModule]_vars

\* the SentencesModule as its callers drive it
Next ==
    \/ \E j \in JournalIds \cup {NoJournal} : setActiveJournal(j)
    \/ \E ids \in {s \in SeqsUpTo(ResourceIds, NumResources) : IsDistinct(s)} :
          selectResources(ids)
    \/ reset
    \/ \E ids \in IdLists, mode \in UpdateMode : setSelectedIds(ids, mode)
    \/ fetchResourceSentences
    \/ \E texts \in TextLists : new(texts)
    \/ \E ids \in IdLists : delete(ids)
    \/ deleteSelect
    \/ deleteFetch
    \/ \E ids \in {s \in IdLists : Range(s) \subseteq DOMAIN table}, r \in ResourceIds :
          putSentencesInResource(ids, r)

Spec == Init /\ [][Next]_vars

(***************************************************************************)
(* Properties                                                              *)
(***************************************************************************)
\* C1: addToAll with an entity whose id is already in the loaded mapping
\* fails with an error and leaves the mapping exactly as it was, so get(id)
\* still returns the entity stored first.
C1_AddToAllDuplicateFails ==
    [][(ret'.op = "addToAll" /\ get(ret'.value.id) # undefined)
          => (ret'.outcome = "error" /\ all' = all)]_vars

\* a second addToAll of the same id with other contents has failed, and get
\* returns the first entity
C1_Witness ==
    /\ ret.op = "addToAll"
    /\ ret.outcome = "error"
    /\ get(ret.value.id) # undefined
    /\ get(ret.value.id) # ret.value

\* C2 as stated: isValid(id) is true exactly while id is in the loaded mapping,
\* and false otherwise.
C2_IsValidIffLoaded ==
    \A id \in Ids : isValid(id) = IF id \in DOMAIN all THEN "true" ELSE "false"

\* C2 as amended: EntryStash.isValid(id) is true exactly while id is in the
\* loaded mapping. CommonEntryStash.isValid(id) throws while no journal is
\* active; with a journal active it is false while id is not in the loaded
\* mapping and true exactly while the loaded entity belongs to the active journal.
C2_IsValidScoped ==
    \A id \in Ids :
        /\ entryIsValid(id) <=> id \in DOMAIN all
        /\ activeJournal = NoJournal => isValid(id) = "throws"
        /\ activeJournal # NoJournal =>
              /\ isValid(id) \in {"true", "false"}
              /\ id \notin DOMAIN all => isValid(id) = "false"
              /\ id \in DOMAIN all =>
                    (isValid(id) = "true" <=> all[id].journalId = activeJournal)

\* a loaded entity of another journal is not valid, beside a loaded one that is,
\* after a fetch has replaced the mapping
C2_Witness ==
    /\ activeJournal # NoJournal
    /\ \E id \in DOMAIN all : isValid(id) = "false"
    /\ \E id \in DOMAIN all : isValid(id) = "true"

\* C3: setSelectedIds is idempotent: after a call that did not fail, the same
\* call again returns 0 (unchanged) and leaves the same selection list.
C3_SetSelectedIdsIdempotent ==
    (ret.op = "setSelectedIds" /\ ret.outcome # "error") =>
        LET again == setSelectedIdsResult(all, selectedIds, ret.ids, ret.mode)
        IN /\ again.outcome = "unchanged"
           /\ again.selectedIds = selectedIds

\* a call that changed the selection, for each mode's interesting input
C3_Witness ==
    /\ ret.op = "setSelectedIds"
    /\ ret.outcome = "changed"
    /\ ret.mode = "Add"
    /\ ret.before # <<>>
    /\ ~IsDistinct(ret.ids)

\* the position of the first occurrence of x in s
FirstIndex(s, x) == CHOOSE i \in DOMAIN s : s[i] = x /\ \A j \in 1..(i - 1) : s[j] # x

\* C4: setSelectedIds(ids, Add) leaves the previous selection, in its order,
\* followed by exactly the input ids not selected before, each once, in the
\* order of their first occurrence in the input.
C4_AddAppendsNewIds ==
    (ret.op = "setSelectedIds" /\ ret.mode = "Add" /\ ret.outcome # "error") =>
        /\ Len(selectedIds) >= Len(ret.before)
        /\ SubSeq(selectedIds, 1, Len(ret.before)) = ret.before
        /\ LET appended == SubSeq(selectedIds, Len(ret.before) + 1, Len(selectedIds))
           IN /\ Range(appended) = Range(ret.ids) \ Range(ret.before)
              /\ \A i, j \in DOMAIN appended :
                    i < j => FirstIndex(ret.ids, appended[i]) < FirstIndex(ret.ids, appended[j])
        /\ IsDistinct(selectedIds)

\* an Add of a repeated new id to a selection that is not empty
C4_Witness ==
    /\ ret.op = "setSelectedIds"
    /\ ret.mode = "Add"
    /\ ret.outcome = "changed"
    /\ ret.before # <<>>
    /\ \E i, j \in DOMAIN ret.ids : i # j /\ ret.ids[i] = ret.ids[j]
                                          /\ ret.ids[i] \notin Range(ret.before)

\* C5: when an id of the input fails isValid, setSelectedIds ends with an
\* error and the selection list is what it was before the call.
C5_SetSelectedIdsAtomic ==
    (ret.op = "setSelectedIds" /\ \E i \in DOMAIN ret.ids : isValid(ret.ids[i]) # "true") =>
        /\ ret.outcome = "error"
        /\ selectedIds = ret.before

\* a failed call whose first id is valid and whose second is not, on a
\* selection that is not empty
C5_Witness ==
    /\ ret.op = "setSelectedIds"
    /\ ret.outcome = "error"
    /\ Len(ret.ids) = 2
    /\ isValid(ret.ids[1]) = "true"
    /\ isValid(ret.ids[2]) = "false"
    /\ ret.before # <<>>

\* C6: updateStateAndDb(id, field, v) when the persisted row's field already
\* equals v returns 0 and changes neither the row nor the loaded copy.
C6_UpdateEqualValueReturnsZero ==
    [][(/\ ret'.op = "updateStateAndDb"
        /\ ~ret'.payload.isFunction
        /\ ret'.ids[1] \in DOMAIN table
        /\ table[ret'.ids[1]][ret'.key] = ret'.payload.value)
          => (ret'.count = 0 /\ table' = table /\ all' = all)]_vars

\* C7: new(texts) with a journal active returns as many new distinct ids as
\* texts; get resolves each id, and the table holds a row for each with the
\* given text and the active journal's id.
C7_NewIdsResolve ==
    (ret.op = "new" /\ ret.outcome = "ok") =>
        /\ Len(ret.ids) = Len(ret.texts)
        /\ IsDistinct(ret.ids)
        /\ \A i \in DOMAIN ret.ids :
              /\ get(ret.ids[i]) # undefined
              /\ ret.ids[i] \in DOMAIN table
              /\ table[ret.ids[i]] = Sentence(ret.ids[i], ret.texts[i], activeJournal)

\* C8: delete(ids) removes the ids from the loaded mapping, the table and the
\* relationship table as one step: after the call none of them is left in any
\* of the three, and no state shows an id gone from the table and still loaded.
C8_DeleteAtomic ==
    ret.op = "delete" =>
        \A id \in Range(ret.ids) :
            /\ ret.outcome = "ok" =>
                  /\ id \notin DOMAIN all
                  /\ id \notin DOMAIN table
                  /\ ~\E l \in links : l[1] = id
            /\ id \notin DOMAIN table => id \notin DOMAIN all

\* C9: fetchResourceSentences with a journal active and no resource selected
\* returns without changing the loaded mapping or the selection list.
C9_FetchWithoutResourceNoChange ==
    [][(ret'.op = "fetchResourceSentences" /\ activeJournal # NoJournal
            /\ resSelectedIds = <<>>)
          => (ret'.outcome = "ok" /\ all' = all /\ selectedIds' = selectedIds
                /\ resSelectedIds' = resSelectedIds)]_vars

\* a fetch that took no resource, on a mapping and a selection that are not empty
C9_Witness ==
    /\ ret.op = "fetchResourceSentences"
    /\ ret.outcome = "ok"
    /\ ret.ids = <<>>
    /\ activeJournal # NoJournal
    /\ all # <<>>
    /\ selectedIds # <<>>

\* C10: the ids new returns can be selected at once with Replace, giving a
\* selection equal to them; a completed delete of D then leaves the selection
\* it was called on minus D, and a mapping without D whose entities are rows.
C10_CreateSelectDelete ==
    [][/\ (/\ ret.op = "new" /\ ret.outcome = "ok"
           /\ ret'.op = "setSelectedIds" /\ ret'.ids = ret.ids /\ ret'.mode = "Replace")
             => (ret'.outcome # "error" /\ selectedIds' = ret.ids)
       /\ (ret'.op = "delete" /\ ret'.outcome = "ok")
             => /\ selectedIds' = SelectSeq(ret'.before, LAMBDA x : x \notin Range(ret'.ids))
                /\ Range(ret'.ids) \cap DOMAIN all' = {}
                /\ \A id \in DOMAIN all' : id \in DOMAIN table' /\ all'[id] = table'[id]]_vars

\* C11 as stated: after any sequence of journal activation,
\* fetchResourceSentences, new, delete, setSelectedIds and reset calls, every
\* id in the selection list resolves to a loaded entity that passes isValid.
C11_SelectionValid ==
    pc = "idle" => \A i \in DOMAIN selectedIds : isValid(selectedIds[i]) = "true"

\* every id in the selection list passes isValid
SelectionValid == \A i \in DOMAIN selectedIds : isValid(selectedIds[i]) = "true"

\* C11 as amended: while the active journal stays the same, every step of
\* fetchResourceSentences, new, delete, setSelectedIds and reset that starts
\* with every selected id passing isValid ends with every selected id passing
\* isValid; journal activation alone leaves the list as it is.
C11_SelectionValidPreserved ==
    [][(activeJournal' = activeJournal /\ SelectionValid) => SelectionValid']_vars

\* a completed delete has cut a valid selection down to a valid one that is
\* not empty
C11_Witness ==
    /\ ret.op = "delete"
    /\ ret.outcome = "ok"
    /\ ret.before # selectedIds
    /\ selectedIds # <<>>
    /\ SelectionValid

\* C12: after any sequence of setSelectedIds calls in any mode, also with
\* input lists that repeat an id, the selection list holds no id twice.
C12_SelectionDistinct == IsDistinct(selectedIds)

\* a Replace with an input that repeats an id has changed a selection of two
\* ids into a selection of one
C12_Witness ==
    /\ ret.op = "setSelectedIds"
    /\ ret.outcome = "changed"
    /\ ret.mode = "Replace"
    /\ ~IsDistinct(ret.ids)
    /\ Len(ret.before) = 2
    /\ Len(selectedIds) = 1

\* C13: with no active journal, isValid and isValidInDb raise, and a call of
\* fetchResourceSentences, new or putSentencesInResource, or of setSelectedIds
\* or delete on at least one id, fails with an error and leaves the loaded
\* mapping, the selection list, the table and the relationship table as they
\* were.
C13_NoJournalFailsBeforeMutation ==
    [][(/\ activeJournal = NoJournal
        /\ pc = "idle"
        /\ \/ ret'.op \in {"fetchResourceSentences", "new", "putSentencesInResource"}
           \/ ret'.op \in {"setSelectedIds", "delete"} /\ ret'.ids # <<>>)
          => /\ \A id \in Ids : isValid(id) = "throws" /\ isValidInDb(id) = "throws"
             /\ ret'.outcome = "error"
             /\ all' = all /\ selectedIds' = selectedIds
             /\ table' = table /\ links' = links]_vars

\* C14: a delete whose input holds an id that is not valid in the database for
\* the active journal (no row, or a row of another journal) is to fail before
\* its transaction: it deletes no sentence row and no relationship row, not
\* even those of the valid ids of the same call.
C14_DeleteFailFast ==
    [][(/\ activeJournal # NoJournal
        /\ pc = "idle"
        /\ ret'.op = "delete"
        /\ \E i \in DOMAIN ret'.ids : isValidInDb(ret'.ids[i]) # "true")
          => (ret'.outcome # "ok" /\ table' = table /\ links' = links)]_vars

\* C15: updateStateAndDb(id, field, v) on an id with a persisted row and no
\* entity in the loaded mapping sets the row's field to v and leaves the
\* loaded mapping as it was.
C15_UpdateUnloadedWritesRow ==
    [][(/\ ret'.op = "updateStateAndDb"
        /\ ~ret'.payload.isFunction
        /\ ret'.ids[1] \in DOMAIN table
        /\ ret'.ids[1] \notin DOMAIN all)
          => /\ ret'.ids[1] \in DOMAIN table'
             /\ table'[ret'.ids[1]][ret'.key] = ret'.payload.value
             /\ all' = all]_vars

\* C16: a completed updateStateAndDb(id, field, v) on a loaded entity whose
\* persisted field differs from v leaves the row's field and the loaded copy's
\* field equal to v; and after any completed updateStateAndDb on a loaded
\* entity, the loaded copy's field equals the row's field.
C16_UpdateKeepsStateAndDbEqual ==
    [][(/\ ret'.op = "updateStateAndDb"
        /\ ret'.ids[1] \in DOMAIN table
        /\ ret'.ids[1] \in DOMAIN all)
          => LET id    == ret'.ids[1]
                 key   == ret'.key
                 value == getValue(ret'.payload, key, all[id])
             IN /\ id \in DOMAIN table' /\ id \in DOMAIN all'
                /\ table[id][key] # value =>
                      (table'[id][key] = value /\ all'[id][key] = value)
                /\ all'[id][key] = table'[id][key]]_vars

\* a loaded entity and its row have been given a text they did not have
C16_Witness ==
    /\ ret.op = "updateStateAndDb"
    /\ ~ret.payload.isFunction
    /\ ret.ids[1] \in DOMAIN all
    /\ ret.ids[1] \in DOMAIN table
    /\ ret.old # ret.payload.value
    /\ all[ret.ids[1]][ret.key] = ret.payload.value
    /\ table[ret.ids[1]][ret.key] = ret.payload.value

\* C17: updateStateAndDb, new, delete and putSentencesInResource change the
\* loaded mapping and the selection list only after their transaction has
\* committed: no step inside the transaction changes them, and after a
\* transaction that failed a loaded entity is what its row is.
C17_CommitBeforeMirror ==
    [][/\ (pc = "idle" /\ ret'.op \in {"updateStateAndDb", "new", "delete",
                                        "putSentencesInResource"})
            => (all' = all /\ selectedIds' = selectedIds)
       /\ (pc = "modify_commit" /\ ret'.outcome = "error")
            => \A id \in DOMAIN all' \cap DOMAIN table' : all'[id] = table'[id]]_vars

\* C18: new is never silently partial: when not every created row can be read
\* back inside the transaction, new fails and the table is left without any
\* newly created row; a new that succeeds has a row for every id it returns.
C18_NewNeverPartial ==
    [][ret'.op = "new" =>
          /\ ret'.outcome = "ok" =>
                /\ Len(ret'.ids) = Len(ret'.texts)
                /\ \A i \in DOMAIN ret'.ids : ret'.ids[i] \in DOMAIN table'
          /\ ret'.outcome = "error" => table' = table]_vars

\* C19: reset always succeeds and leaves the loaded mapping and the selection
\* list empty; it changes no row of the table and no relationship row.
C19_ResetEmptiesState ==
    [][ret'.op = "reset" =>
          /\ ret'.outcome = "ok"
          /\ all' = <<>> /\ selectedIds' = <<>>
          /\ \A id \in Ids : get(id)' = undefined
          /\ table' = table /\ links' = links]_vars

\* a reset of a module with a selection, over a table that keeps its rows
C19_Witness ==
    /\ ret.op = "reset"
    /\ ret.before # <<>>
    /\ all = <<>>
    /\ selectedIds = <<>>
    /\ table # <<>>
    /\ links # {}

\* C20: with journal J active, isValid(id) is true iff the loaded mapping holds
\* an entity with that id whose journalId is J, and isValidInDb(id) is true iff
\* the table holds a row with that id whose journalId is J, loaded or not; an
\* entity of another journal is never valid.
C20_ValidityJournalScoped ==
    activeJournal # NoJournal =>
        \A id \in Ids :
            /\ isValid(id) \in {"true", "false"}
            /\ isValid(id) = "true" <=>
                  (id \in DOMAIN all /\ all[id].journalId = activeJournal)
            /\ isValidInDb(id) \in {"true", "false"}
            /\ isValidInDb(id) = "true" <=>
                  (id \in DOMAIN table /\ table[id].journalId = activeJournal)

\* a sentence of another journal, loaded and persisted, is valid in neither
\* sense, beside a persisted sentence of the active journal that is not loaded
\* and is valid in the database
C20_Witness ==
    /\ activeJournal # NoJournal
    /\ \E id \in DOMAIN all \cap DOMAIN table :
          /\ all[id].journalId # activeJournal
          /\ isValid(id) = "false"
          /\ isValidInDb(id) = "false"
    /\ \E id \in DOMAIN table \ DOMAIN all :
          /\ isValidInDb(id) = "true"
          /\ isValid(id) = "false"

\* C21: fetchResourceSentences with a journal active and a resource selected
\* replaces the loaded mapping with exactly the persisted sentences linked to
\* the first selected resource, and leaves the selection list equal to the
\* previous selection restricted to the ids now loaded, in its previous order.
C21_FetchReplacesAndReselects ==
    [][(/\ ret'.op = "fetchResourceSentences"
        /\ activeJournal # NoJournal
        /\ resSelectedIds # <<>>)
          => LET linked == {id \in DOMAIN table :
                               <<id, Head(resSelectedIds)>> \in links}
             IN /\ all' = [id \in linked |-> table[id]]
                /\ selectedIds' = SelectSeq(selectedIds, LAMBDA x : x \in linked)]_vars

\* C22: fetchResourceSentences reads the first selected resource without
\* changing the resources module's selection list: no fetch, and no delete
\* with its re-fetch, changes that list.
C22_FetchPeeksResourceSelection ==
    [][ret'.op \in {"fetchResourceSentences", "delete"}
          => resSelectedIds' = resSelectedIds]_vars

\* C23 as stated: whenever the list computed from the current selection, the
\* input ids and the mode equals the current selection, setSelectedIds returns
\* 0 and the selection list is left as it was.
C23_NoOpReturnsZero ==
    (/\ ret.op = "setSelectedIds"
     /\ areArraysEqual(ret.before, updateArrayWithValues(ret.before, ret.ids, ret.mode)))
        => (ret.outcome = "unchanged" /\ selectedIds = ret.before)

\* C23 as amended: the same, for input ids that all pass isValid; with an id
\* that does not, the call fails instead of returning 0, and the selection list
\* is left as it was all the same.
C23_NoOpReturnsZeroForValidIds ==
    (/\ ret.op = "setSelectedIds"
     /\ areArraysEqual(ret.before, updateArrayWithValues(ret.before, ret.ids, ret.mode)))
        => /\ selectedIds = ret.before
           /\ IF \A i \in DOMAIN ret.ids : isValid(ret.ids[i]) = "true"
              THEN ret.outcome = "unchanged"
              ELSE ret.outcome = "error"

\* a Remove of a valid id that is not selected, from a selection that is not
\* empty, has returned 0
C23_Witness ==
    /\ ret.op = "setSelectedIds"
    /\ ret.mode = "Remove"
    /\ ret.ids # <<>>
    /\ Range(ret.ids) \cap Range(ret.before) = {}
    /\ ret.before # <<>>
    /\ ret.outcome = "unchanged"
    /\ selectedIds = ret.before

\* C24: for valid input, Replace makes the selection the input ids in input
\* order with repeats removed, whatever the old selection was, and Remove makes
\* it the old selection without the input ids, the remaining ids in their
\* old order.
C24_ReplaceAndRemove ==
    (ret.op = "setSelectedIds" /\ ret.outcome # "error") =>
        /\ ret.mode = "Replace" =>
              /\ Range(selectedIds) = Range(ret.ids)
              /\ IsDistinct(selectedIds)
              /\ \A i, j \in DOMAIN selectedIds :
                    i < j => FirstIndex(ret.ids, selectedIds[i]) < FirstIndex(ret.ids, selectedIds[j])
        /\ ret.mode = "Remove" =>
              selectedIds = SelectSeq(ret.before, LAMBDA x : x \notin Range(ret.ids))

\* a Remove of the first of two selected ids has left the second
C24_Witness ==
    /\ ret.op = "setSelectedIds"
    /\ ret.mode = "Remove"
    /\ ret.outcome = "changed"
    /\ Len(ret.before) = 2
    /\ ret.ids = <<ret.before[1]>>
    /\ selectedIds = <<ret.before[2]>>

\* C25: whenever delete(ids) ends with an error, that call has deleted no
\* sentence row (and with it no relationship row), also when its ids are all
\* valid in the database for the active journal and not all loaded.
C25_DeleteErrorDeletesNothing ==
    (ret.op = "delete" /\ ret.outcome = "error") => ret.count = 0

\* C26: with a journal active, putSentencesInResource either leaves a
\* relationship row for every given sentence id, or, when the upsert of a child
\* fails, fails and persists no relationship row of the call; the loaded
\* mapping and the selection list are as they were in both cases.
C26_RelinkAtomic ==
    [][(ret'.op = "putSentencesInResource" /\ activeJournal # NoJournal) =>
          /\ \/ /\ ret'.outcome = "ok"
                /\ links \subseteq links'
                /\ \A i \in DOMAIN ret'.ids : \E r \in ResourceIds :
                      /\ <<ret'.ids[i], r>> \in links'
                      /\ links' \ links \subseteq {<<id, r>> : id \in Range(ret'.ids)}
             \/ /\ ret'.outcome = "error"
                /\ links' = links
          /\ all' = all
          /\ selectedIds' = selectedIds]_vars

\* a call for two sentences, one of them linked before, has failed and the
\* other is not linked
C26_Witness ==
    /\ ret.op = "putSentencesInResource"
    /\ ret.outcome = "error"
    /\ activeJournal # NoJournal
    /\ Len(ret.ids) = 2
    /\ \E r \in ResourceIds : <<ret.ids[1], r>> \in links /\ <<ret.ids[2], r>> \notin links

\* C27: when updateStateAndDb calls on the same loaded id and field, with
\* values that differ, have run side by side in any interleaving and all have
\* completed, the loaded copy's field and the row's field hold the same value,
\* and it is one of the values written.
C27_ConcurrentUpdatesAgree ==
    \A c, d \in Calls :
        (/\ c # d
         /\ \A e \in Calls : calls[e].phase = "done"
         /\ \A e \in Calls : calls[e].id = calls[c].id /\ calls[e].key = calls[c].key
                               /\ ~calls[e].payload.isFunction
         /\ calls[c].payload.value # calls[d].payload.value
         /\ calls[c].id \in DOMAIN all
         /\ calls[c].id \in DOMAIN table)
            => LET id  == calls[c].id
                   key == calls[c].key
               IN /\ all[id][key] = table[id][key]
                  /\ all[id][key] \in {calls[e].payload.value : e \in Calls}

\* two calls with different values on one loaded sentence have completed, and
\* the value the row and the loaded copy hold is the first call's
C27_Witness ==
    /\ \A e \in Calls : calls[e].phase = "done" /\ calls[e].id = calls[1].id
                          /\ ~calls[e].payload.isFunction
    /\ calls[1].payload.value # calls[2].payload.value
    /\ calls[1].id \in DOMAIN all
    /\ calls[1].id \in DOMAIN table
    /\ all[calls[1].id].text = calls[1].payload.value
    /\ table[calls[1].id].text = calls[1].payload.value

\* C28: when a delete(D) and a fetchResourceSentences call that started before
\* the delete completed have both finished, no id of D is in the loaded mapping
\* or in the selection list.
C28_NoStaleAfterFetchAndDelete ==
    (/\ ret.op = "delete"
     /\ ret.outcome = "ok"
     /\ pc = "idle"
     /\ fetching.phase = "done")
        => \A id \in Range(ret.ids) : id \notin DOMAIN all /\ id \notin Range(selectedIds)

\* C29: the list selection of the collection store never holds two lists with
\* the same id, and selectList with annex = false leaves no list selected other
\* than the one asked for.
C29_ListSelectionDistinct ==
    /\ IsDistinct(idsOf(collection.selectedLists))
    /\ (ret.op = "selectList" /\ ~ret.annex)
           => Range(idsOf(collection.selectedLists)) \subseteq {ret.listId}

\* selectList with annex on a list already among two selected lists
C29_Witness ==
    /\ ret.op = "selectList"
    /\ ret.annex
    /\ Len(ret.selected) = 2
    /\ ret.listId \in Range(ret.selected)
    /\ Len(collection.selectedLists) = 2

\* C30: after deselectAllWords has run, selectedWords is empty.
C30_DeselectAllWordsEmpties ==
    ret.op = "deselectAllWords" => collection.selectedWords = <<>>

\* C31: every selected word of the collection store is a word of some list of
\* state.lists, and removeWord leaves the word neither in the list it was
\* removed from nor in selectedWords.
C31_SelectedWordsInLists ==
    /\ \A w \in Range(collection.selectedWords) : listsWithWord(collection, w) # {}
    /\ (ret.op = "removeWord" /\ ret.listId # "")
           => /\ ret.wordId \notin Range(collection.lists[ret.listId].index)
              /\ ret.wordId \notin Range(collection.selectedWords)

\* removeWord of a word that was selected, with another word still selected
C31_Witness ==
    /\ ret.op = "removeWord"
    /\ ret.listId # ""
    /\ ret.wordId \in Range(ret.selected)
    /\ Len(ret.selected) = 2
    /\ Len(collection.selectedWords) = 1

\* C32: the earlier StashModule.updateStateAndDb returns 0 and writes neither
\* the table nor the state when the entry is not loaded or already holds the
\* value, and when the table update changes no row (result 0) the loaded entry
\* holds no value that the persisted row does not hold.
C32_EarlierUpdateAgrees ==
    ret.op = "StashModule.updateStateAndDb" =>
        LET id == ret.ids[1]
            key == ret.key
        IN /\ (ret.value = undefined \/ ret.value[key] = ret.payload.value)
                  => /\ ret.outcome = "0"
                     /\ get(id) = ret.value
                     /\ id \in DOMAIN table => table[id][key] = ret.old
           /\ ret.outcome = "update 0"
                  => /\ id \in DOMAIN table
                     /\ table[id][key] = get(id)[key]
=============================================================================
